---- MODULE Spec2Model ----
(***************************************************************************)
(* A model of popper/util.py: the literal scheduler (order_rule,           *)
(* order_rule_datalog), the canonicaliser (reduce_prog, order_prog,        *)
(* rule_subsumes, theory_subsumes), the space enumerator (bias_order),     *)
(* bounded execution (timeout, _windows_timeout) and the catalog builder   *)
(* (Settings.__init__).                                                    *)
(***************************************************************************)
EXTENDS Integers, Sequences, FiniteSets, TLC

VARIABLES
    \* ---- literal scheduler (order_rule / order_rule_datalog) ----
    head,               \* rule[0]: a literal, or None
    body,               \* rule[1]: the set of body literals
    settings_datalog,   \* settings.datalog
    settings_recall,    \* settings.recall
    pc,                 \* position inside order_rule / order_rule_datalog
    body_literals,      \* the remaining-literal set of the while loop
    ordered_body,       \* the literals selected so far, in selection order
    grounded_variables, \* order_rule's running set
    seen_vars,          \* order_rule_datalog's running set
    result,             \* what the call returned or raised
    \* ---- canonicaliser ----
    prog,               \* the program handed to the canonicaliser
    canon,              \* the outcome of the canonicaliser call
    \* ---- space enumerator ----
    bias_settings,      \* the settings fields bias_order reads
    search_order,       \* settings.search_order / the returned list
    \* ---- bounded execution ----
    tmo,                \* the state of one timeout(...) call
    \* ---- catalog builder ----
    catalog             \* the bias facts and the outcome of Settings.__init__

vars == << head, body, settings_datalog, settings_recall, pc, body_literals,
           ordered_body, grounded_variables, seen_vars, result,
           prog, canon, bias_settings, search_order, tmo, catalog >>

schedVars == << head, body, settings_datalog, settings_recall, pc, body_literals,
                ordered_body, grounded_variables, seen_vars, result >>
canonVars == << prog, canon >>
biasVars  == << bias_settings, search_order >>
tmoVars   == << tmo >>
catalogVars == << catalog >>

(***************************************************************************)
(* Bounds of the model.                                                    *)
(***************************************************************************)
MaxBodyLits == 2        \* most literals in a rule body handed to the scheduler
MaxProg == 2            \* most rules in a program handed to the canonicaliser
MaxVarsBound == 2       \* largest settings.max_vars
MaxRulesBound == 2      \* largest settings.max_rules
MaxBodyBound == 2       \* largest settings.max_body
MaxBodyPreds == 1       \* largest len(settings.body_preds)
MaxSizeArg == 3         \* largest max_size argument of bias_order
MaxDuration == 2        \* largest timeout_duration, in clock ticks
MaxWork == 3            \* longest wrapped call, in clock ticks

(***************************************************************************)
(* Literals (popper.core.Literal as util.py uses it).                      *)
(***************************************************************************)
Vars == {"A", "B"}
Modes == {"+", "-", "?"}
HeadPred == "p"
Arity == [p |-> 2, q |-> 1, r |-> 2]
BodyPreds == {"p", "q", "r"}

\* Python's None, as a literal-shaped value so that it compares with literals.
None == [predicate |-> "None", arguments |-> << >>, modes |-> << >>]

Literal(predicate, arguments, modes) ==
    [predicate |-> predicate, arguments |-> arguments, modes |-> modes]

\* literal.inputs: the arguments at '+' positions, as a set.
inputs(literal) ==
    { literal.arguments[i] : i \in { j \in DOMAIN literal.arguments : literal.modes[j] = "+" } }

\* literal.outputs: the arguments at '-' positions, as a set.
outputs(literal) ==
    { literal.arguments[i] : i \in { j \in DOMAIN literal.arguments : literal.modes[j] = "-" } }

\* set(literal.arguments)
argset(literal) == { literal.arguments[i] : i \in DOMAIN literal.arguments }

\* The mode vectors lines 472-481 and 526/537 can give a predicate: a
\* direction tuple sets its positions from the first on, so the '?' of line
\* 472 stands only at positions after the set ones.
ModeVectors ==
    { v \in UNION { [1..n -> Modes] : n \in {1, 2} } :
        \A i, j \in DOMAIN v : (i < j /\ v[i] = "?") => v[j] = "?" }

\* The direction vectors a bias file can give each predicate.
Directions == [BodyPreds -> ModeVectors]
WellFormedDirections == { d \in Directions : \A pr \in BodyPreds : Len(d[pr]) = Arity[pr] }

\* Every (predicate, arguments) pair of cached_literals over Vars: the
\* argument tuples are those of cached_atom_args, permutations of the
\* variables (line 517), so no variable occurs twice in a literal.
Atoms ==
    { a \in BodyPreds \X UNION { [1..n -> Vars] : n \in {1, 2} } :
        /\ Len(a[2]) = Arity[a[1]]
        /\ \A i, j \in DOMAIN a[2] : a[2][i] = a[2][j] => i = j }

\* All orders in which a set can be iterated.
Orders(S) == { f \in [1..Cardinality(S) -> S] : \A i, j \in DOMAIN f : f[i] = f[j] => i = j }

(***************************************************************************)
(* order_rule, lines 257-300.                                              *)
(***************************************************************************)

\* settings.recall tables the caller may hold: none, and two with hints.
EmptyRecall == [k \in {} |-> 0]
RecallA == (<<"q", <<"0">>>> :> 2) @@ (<<"r", <<"0", "0">>>> :> 1) @@ (<<"r", <<"1", "0">>>> :> 3)
RecallB == (<<"q", <<"0">>>> :> 1) @@ (<<"p", <<"0", "0">>>> :> 1) @@ (<<"r", <<"0", "1">>>> :> 4)
RecallTables == { EmptyRecall, RecallA, RecallB }

\* What a call has returned or raised; kind "none" while it runs.
\*   "rule"    : line 268, the rule itself
\*   "ordered" : lines 300 / 344, (head, tuple(ordered_body))
\*   "error"   : line 294, ValueError; literal is the literal named in the message
NoResult == [kind |-> "none", head |-> None, body |-> << >>, literal |-> None]

\* head.inputs == []  (line 267): Python's == between the set head.inputs and a
\* list. A set is never equal to a list, whatever the two hold.
SetEqualsEmptyList(s) == FALSE

\* len(literal.outputs) == len(literal.arguments)  (line 277)
IsGenerator(literal) == Cardinality(outputs(literal)) = Len(literal.arguments)

\* A mutant of IsGroundable: the check of line 281 is dropped.
IsGroundable_NoCheck(literal, grounded) == TRUE

\* literal.inputs.issubset(grounded_variables)  (line 281)
IsGroundable(literal, grounded) == inputs(literal) \subseteq grounded

\* A mutant of ForLoop: the test of line 284 is dropped, so the first
\* groundable literal is selected whatever its predicate.
RECURSIVE ForLoop_FirstEligible(_, _, _, _, _)
ForLoop_FirstEligible(order, i, selected, grounded, hd) ==
    IF i > Len(order) THEN selected
    ELSE LET literal == order[i] IN
         IF IsGenerator(literal) THEN literal
         ELSE IF ~IsGroundable(literal, grounded)
              THEN ForLoop_FirstEligible(order, i + 1, selected, grounded, hd)
         ELSE literal

\* A mutant of ForLoop: only the first literal of the iteration is looked at.
ForLoop_FirstOnly(order, i, selected, grounded, hd) ==
    IF i > Len(order) THEN selected
    ELSE IF IsGenerator(order[i]) \/ IsGroundable(order[i], grounded) THEN order[i]
    ELSE selected

\* The for loop of lines 276-290 over the remaining literals, iterated in
\* `order`, from position i with `selected` the current selected_literal.
RECURSIVE ForLoop(_, _, _, _, _)
ForLoop(order, i, selected, grounded, hd) ==
    IF i > Len(order) THEN selected
    ELSE LET literal == order[i] IN
         IF IsGenerator(literal) THEN literal
         ELSE IF ~IsGroundable(literal, grounded)
              THEN ForLoop(order, i + 1, selected, grounded, hd)
         ELSE IF hd # None /\ literal.predicate # hd.predicate THEN literal
         ELSE IF selected = None
              THEN ForLoop(order, i + 1, literal, grounded, hd)
         ELSE ForLoop(order, i + 1, selected, grounded, hd)

\* A mutant of Remaining: the selected literal stays in the pool once more
\* whenever another literal is dropped with it.
Remaining_DropsTwo(remaining, selected) ==
    IF Cardinality(remaining) >= 2
    THEN remaining \ {selected, CHOOSE l \in remaining : l # selected}
    ELSE remaining \ {selected}

\* body_literals.difference({selected_literal})  (lines 298, 337)
Remaining(remaining, selected) == remaining \ {selected}

\* lines 259-271: dispatch on settings.datalog, the early return, the set-up
\* of the loop; with lines 317-323 of order_rule_datalog when it is entered.
OrderRuleCall ==
    /\ pc = "start"
    /\ IF settings_datalog
       THEN /\ seen_vars' = (IF head # None THEN argset(head) ELSE {})
            /\ body_literals' = body
            /\ pc' = "datalog_loop"
            /\ UNCHANGED << grounded_variables, result >>
       ELSE IF head # None /\ SetEqualsEmptyList(inputs(head))
       THEN /\ \E order \in Orders(body) :
                  result' = [kind |-> "rule", head |-> head, body |-> order, literal |-> None]
            /\ pc' = "done"
            /\ UNCHANGED << grounded_variables, seen_vars, body_literals >>
       ELSE /\ grounded_variables' = (IF head # None THEN inputs(head) ELSE {})
            /\ body_literals' = body
            /\ pc' = "loop"
            /\ UNCHANGED << seen_vars, result >>
    /\ UNCHANGED << head, body, settings_datalog, settings_recall, ordered_body >>
    /\ UNCHANGED << canonVars, biasVars, tmoVars, catalogVars >>

\* lines 274-298: one iteration of the while loop. The set body_literals is
\* iterated in some order; no literal selected raises ValueError, whose message
\* formats selected_literal (line 293) and the rule.
OrderRuleIteration ==
    /\ pc = "loop"
    /\ body_literals # {}
    /\ \E order \in Orders(body_literals) :
         LET selected_literal == ForLoop(order, 1, None, grounded_variables, head) IN
         IF selected_literal = None
         THEN /\ result' = [kind |-> "error", head |-> head, body |-> << >>,
                            literal |-> selected_literal]
              /\ pc' = "error"
              /\ UNCHANGED << ordered_body, grounded_variables, body_literals >>
         ELSE /\ ordered_body' = Append(ordered_body, selected_literal)
              /\ grounded_variables' = grounded_variables \cup outputs(selected_literal)
              /\ body_literals' = Remaining(body_literals, selected_literal)
              /\ UNCHANGED << pc, result >>
    /\ UNCHANGED << head, body, settings_datalog, settings_recall, seen_vars >>
    /\ UNCHANGED << canonVars, biasVars, tmoVars, catalogVars >>

\* line 300: return head, tuple(ordered_body)
OrderRuleReturn ==
    /\ pc = "loop"
    /\ body_literals = {}
    /\ result' = [kind |-> "ordered", head |-> head, body |-> ordered_body, literal |-> None]
    /\ pc' = "done"
    /\ UNCHANGED << head, body, settings_datalog, settings_recall, body_literals,
                    ordered_body, grounded_variables, seen_vars >>
    /\ UNCHANGED << canonVars, biasVars, tmoVars, catalogVars >>

(***************************************************************************)
(* order_rule_datalog, lines 302-344.                                      *)
(***************************************************************************)
\* lines 305-311: the boundedness key of a literal, one character per argument.
BoundKey(seen, literal) ==
    [i \in DOMAIN literal.arguments |-> IF literal.arguments[i] \in seen THEN "1" ELSE "0"]

NoHint == 1000000

\* tmp_score, lines 304-315
tmp_score(recall, seen, literal) ==
    LET k == << literal.predicate, BoundKey(seen, literal) >> IN
    IF k \in DOMAIN recall THEN recall[k] ELSE NoHint

\* A mutant of FirstSeen: the loop of lines 326-329 is dropped, so every
\* selection is left to the recall scores.
FirstSeen_Dropped(order, i, seen) == None

\* lines 326-329: the first literal of the iteration whose arguments are all seen.
RECURSIVE FirstSeen(_, _, _)
FirstSeen(order, i, seen) ==
    IF i > Len(order) THEN None
    ELSE IF argset(order[i]) \subseteq seen THEN order[i]
    ELSE FirstSeen(order, i + 1, seen)

\* A mutant of SortedFirst: the last element of the sorted list is taken.
SortedFirst_Last(order, recall, seen) ==
    LET worst == CHOOSE i \in DOMAIN order :
                    \A j \in DOMAIN order :
                        tmp_score(recall, seen, order[i]) >= tmp_score(recall, seen, order[j])
    IN order[worst]

\* lines 332-333: sorted(body_literals, key=tmp_score)[0]; the sort is stable,
\* so it is the first literal of the iteration with the least score.
SortedFirst(order, recall, seen) ==
    LET best == CHOOSE i \in DOMAIN order :
                    /\ \A j \in DOMAIN order :
                          tmp_score(recall, seen, order[i]) <= tmp_score(recall, seen, order[j])
                    /\ \A j \in 1..(i - 1) :
                          tmp_score(recall, seen, order[j]) > tmp_score(recall, seen, order[i])
    IN order[best]

\* lines 324-337: one iteration of the while loop.
DatalogIteration ==
    /\ pc = "datalog_loop"
    /\ body_literals # {}
    /\ \E order \in Orders(body_literals) :
         LET first == FirstSeen(order, 1, seen_vars)
             selected_literal == IF first = None
                                 THEN SortedFirst(order, settings_recall, seen_vars)
                                 ELSE first
         IN /\ ordered_body' = Append(ordered_body, selected_literal)
            /\ seen_vars' = seen_vars \cup argset(selected_literal)
            /\ body_literals' = Remaining(body_literals, selected_literal)
    /\ UNCHANGED << head, body, settings_datalog, settings_recall, pc,
                    grounded_variables, result >>
    /\ UNCHANGED << canonVars, biasVars, tmoVars, catalogVars >>

\* line 344: return head, tuple(ordered_body)
DatalogReturn ==
    /\ pc = "datalog_loop"
    /\ body_literals = {}
    /\ result' = [kind |-> "ordered", head |-> head, body |-> ordered_body, literal |-> None]
    /\ pc' = "done"
    /\ UNCHANGED << head, body, settings_datalog, settings_recall, body_literals,
                    ordered_body, grounded_variables, seen_vars >>
    /\ UNCHANGED << canonVars, biasVars, tmoVars, catalogVars >>

(***************************************************************************)
(* Idle values of the components a specification does not run.             *)
(***************************************************************************)
IdleSched ==
    /\ head = None /\ body = {} /\ settings_datalog = FALSE
    /\ settings_recall = EmptyRecall /\ pc = "idle" /\ body_literals = {}
    /\ ordered_body = << >> /\ grounded_variables = {} /\ seen_vars = {}
    /\ result = NoResult
IdleCanon == prog = << >> /\ canon = [op |-> "none"]
IdleBias == bias_settings = [pc |-> "idle"] /\ search_order = << >>
IdleTmo == tmo = [pc |-> "idle"]
IdleCatalog == catalog = [pc |-> "idle"]

(***************************************************************************)
(* The scheduler's specification: one call of order_rule on each rule a    *)
(* bias file's directions allow.                                           *)
(***************************************************************************)
Bodies == { b \in SUBSET Atoms : Cardinality(b) <= MaxBodyLits }

InitSched ==
    /\ \E d \in WellFormedDirections, hasHead \in BOOLEAN, atoms \in Bodies :
         /\ head = (IF hasHead THEN Literal(HeadPred, << "A", "B" >>, d[HeadPred]) ELSE None)
         /\ body = { Literal(a[1], a[2], d[a[1]]) : a \in atoms }
    /\ settings_datalog \in BOOLEAN
    /\ settings_recall \in (IF settings_datalog THEN RecallTables ELSE {EmptyRecall})
    /\ pc = "start"
    /\ body_literals = {}
    /\ ordered_body = << >>
    /\ grounded_variables = {}
    /\ seen_vars = {}
    /\ result = NoResult
    /\ IdleCanon /\ IdleBias /\ IdleTmo /\ IdleCatalog

NextSched ==
    \/ OrderRuleCall
    \/ OrderRuleIteration
    \/ OrderRuleReturn
    \/ DatalogIteration
    \/ DatalogReturn

SpecSched == InitSched /\ [][NextSched]_vars

(***************************************************************************)
(* Properties of the scheduler.                                            *)
(***************************************************************************)
HeadInputs == IF head # None THEN inputs(head) ELSE {}

Returned == pc = "done" /\ result.kind \in {"rule", "ordered"}

\* The outputs of the literals placed strictly before position i.
EarlierOutputs(seq, i) == UNION { outputs(seq[j]) : j \in 1..(i - 1) }

\* C1: whenever order_rule (without the datalog setting) returns an ordering,
\* every literal of the returned body has its input variables among the head's
\* input variables and the outputs of the literals placed strictly before it,
\* whatever order the remaining-literal set was iterated in.
C1_GroundingSafety ==
    (Returned /\ ~settings_datalog) =>
        \A i \in DOMAIN result.body :
            inputs(result.body[i]) \subseteq (HeadInputs \cup EarlierOutputs(result.body, i))

\* C1 witness: a returned ordering in which a literal needs a variable that the
\* head does not ground, so that an earlier literal's output has to supply it.
C1_Witness ==
    /\ Returned /\ ~settings_datalog /\ head # None
    /\ \E i \in DOMAIN result.body :
          /\ i > 1
          /\ inputs(result.body[i]) \ HeadInputs # {}
          /\ inputs(result.body[i]) \subseteq (HeadInputs \cup EarlierOutputs(result.body, i))

\* C2: every returned ordered_body, of order_rule and of order_rule_datalog, is
\* a permutation of the rule's body: each body literal exactly once, none
\* omitted, none duplicated, none from outside the body.
C2_Permutation ==
    (pc = "done" /\ result.kind = "ordered") =>
        /\ Len(result.body) = Cardinality(body)
        /\ { result.body[i] : i \in DOMAIN result.body } = body
        /\ \A i, j \in DOMAIN result.body : result.body[i] = result.body[j] => i = j

\* C2 witness: recall-directed ordering has returned a body of two literals.
C2_Witness ==
    /\ pc = "done" /\ result.kind = "ordered" /\ settings_datalog
    /\ Len(result.body) >= 2
    /\ { result.body[i] : i \in DOMAIN result.body } = body

\* C3, as claimed: for a rule with a head whose set of input variables is
\* empty, order_rule (without the datalog setting) ends by returning the rule
\* with its body literals untouched, and raises no grounding error. (The body
\* is a set: "untouched" is read as the returned body holding exactly the
\* rule's literals.)
C3_EmptyHeadInputsUnchanged ==
    (pc \in {"done", "error"} /\ ~settings_datalog /\ head # None /\ inputs(head) = {}) =>
        /\ result.kind # "error"
        /\ { result.body[i] : i \in DOMAIN result.body } = body

\* Some body literal has an input variable that is neither an input of the
\* head nor an output of any other body literal.
IsStuck(literal) ==
    \E x \in inputs(literal) :
        /\ x \notin HeadInputs
        /\ \A other \in body \ {literal} : x \notin outputs(other)
HasStuckLiteral == \E literal \in body : IsStuck(literal)

\* C4, as claimed: order_rule on a rule with such a literal ends in the
\* grounding error, and the error's diagnostic names a literal of the body
\* that could not be grounded, together with the owning rule.
C4_GroundingErrorNamesLiteral ==
    (pc \in {"done", "error"} /\ ~settings_datalog /\ HasStuckLiteral) =>
        /\ result.kind = "error"
        /\ result.head = head
        /\ result.literal \in body
        /\ ~IsGroundable(result.literal, grounded_variables)

\* The first half of C4 alone: such a rule never gets an ordering.
C4_StuckRuleRaises ==
    (pc \in {"done", "error"} /\ ~settings_datalog /\ HasStuckLiteral) => result.kind = "error"


(***************************************************************************)
(* The canonicaliser: reduce_prog, order_prog, rule_subsumes,              *)
(* theory_subsumes. A rule is (head, body) with body a tuple of literals.  *)
(***************************************************************************)
Rule(h, b) == [head |-> h, body |-> b]

\* f of reduce_prog, lines 209-210: (literal.predicate, literal.arguments)
f(literal) == << literal.predicate, literal.arguments >>

\* f(None) raises AttributeError: None has no attribute predicate.
NoneSig == << "None", << >> >>

\* lines 213-216: the key of a rule in the dict `reduced`
ReducedKey(rule) == << f(rule.head), { f(rule.body[i]) : i \in DOMAIN rule.body } >>

\* reduced[k] = rule  (line 217) on an insertion-ordered dict, kept as the
\* sequence of its (key, value) items.
DictSet(reduced, k, rule) ==
    IF \E n \in DOMAIN reduced : reduced[n].k = k
    THEN [n \in DOMAIN reduced |-> IF reduced[n].k = k THEN [k |-> k, v |-> rule] ELSE reduced[n]]
    ELSE Append(reduced, [k |-> k, v |-> rule])

\* lines 211-218. head = f(head) raises on a rule without a head.
RECURSIVE ReduceLoop(_, _, _)
ReduceLoop(program, i, reduced) ==
    IF i > Len(program)
    THEN [kind |-> "ok", value |-> [n \in DOMAIN reduced |-> reduced[n].v]]
    ELSE IF program[i].head = None
         THEN [kind |-> "AttributeError", value |-> << >>]
         ELSE ReduceLoop(program, i + 1, DictSet(reduced, ReducedKey(program[i]), program[i]))

reduce_prog(program) == ReduceLoop(program, 1, << >>)

\* rule_is_recursive, lines 223-227
rule_is_recursive(rule) ==
    IF rule.head = None THEN FALSE
    ELSE \E i \in DOMAIN rule.body : rule.head.predicate = rule.body[i].predicate

\* A mutant of SortKey: the recursion flag is left out of the key.
SortKey_BodyLengthOnly(rule) == << 0, Len(rule.body) >>

\* The key of line 221: (rule_is_recursive(rule), len(rule[1])), False < True.
SortKey(rule) == << IF rule_is_recursive(rule) THEN 1 ELSE 0, Len(rule.body) >>

\* Python's tuple order on keys.
KeyLess(k1, k2) == k1[1] < k2[1] \/ (k1[1] = k2[1] /\ k1[2] < k2[2])

\* sorted(...) is stable: a rule goes after every rule whose key is not greater.
RECURSIVE InsertStable(_, _)
InsertStable(sorted, rule) ==
    IF sorted = << >> THEN << rule >>
    ELSE IF KeyLess(SortKey(rule), SortKey(sorted[Len(sorted)]))
         THEN Append(InsertStable(SubSeq(sorted, 1, Len(sorted) - 1), rule), sorted[Len(sorted)])
         ELSE Append(sorted, rule)

RECURSIVE SortedPrefix(_, _)
SortedPrefix(program, n) ==
    IF n = 0 THEN << >> ELSE InsertStable(SortedPrefix(program, n - 1), program[n])

\* order_prog, lines 220-221
order_prog(program) == SortedPrefix(program, Len(program))

\* The reduced form of a rule that rule_subsumes compares (lines 577-578):
\* (head, frozenset of (predicate, arguments)).
Reduced(rule) ==
    [head |-> IF rule.head = None THEN NoneSig ELSE f(rule.head),
     body |-> { f(rule.body[i]) : i \in DOMAIN rule.body }]

\* A mutant of rule_subsumes: the head test the other way round.
rule_subsumes_HeadTestSwapped(r1, r2) ==
    IF r1.head = NoneSig /\ r2.head # NoneSig THEN FALSE ELSE r1.body \subseteq r2.body

\* rule_subsumes, lines 579-585
rule_subsumes(r1, r2) ==
    IF r1.head # NoneSig /\ r2.head = NoneSig THEN FALSE ELSE r1.body \subseteq r2.body

\* theory_subsumes, lines 587-589
theory_subsumes(prog1, prog2) ==
    \A n2 \in DOMAIN prog2 : \E n1 \in DOMAIN prog1 :
        rule_subsumes(Reduced(prog1[n1]), Reduced(prog2[n2]))

\* The rules of the model: with or without the head p(A,B), a body of at most
\* two of three atoms in either order, under two direction catalogs.
CanonAtoms == { << "q", << "A" >> >>, << "r", << "A", "B" >> >>, << "p", << "B", "A" >> >> }
DirA == [p |-> << "+", "-" >>, q |-> << "+" >>, r |-> << "+", "-" >>]
DirB == [p |-> << "-", "-" >>, q |-> << "-" >>, r |-> << "-", "+" >>]
CanonBodies(d) ==
    { << >> }
      \cup { << Literal(a[1], a[2], d[a[1]]) >> : a \in CanonAtoms }
      \cup { << Literal(a[1], a[2], d[a[1]]), Literal(b[1], b[2], d[b[1]]) >> :
                a \in CanonAtoms, b \in CanonAtoms } 
CanonRules ==
    UNION { { Rule(h, b) : h \in { None, Literal(HeadPred, << "A", "B" >>, d[HeadPred]) },
                           b \in { c \in CanonBodies(d) : Len(c) < 2 \/ c[1] # c[2] } }
            : d \in { DirA, DirB } }
Programs == UNION { [1..n -> CanonRules] : n \in 0..MaxProg }

NoCanon == [op |-> "none"]

\* One call of reduce_prog(prog).
ReduceProg ==
    /\ canon = NoCanon
    /\ canon' = [op |-> "reduce_prog", out |-> reduce_prog(prog)]
    /\ UNCHANGED << prog, schedVars, biasVars, tmoVars, catalogVars >>

\* One call of order_prog(prog).
OrderProg ==
    /\ canon = NoCanon
    /\ canon' = [op |-> "order_prog", out |-> order_prog(prog)]
    /\ UNCHANGED << prog, schedVars, biasVars, tmoVars, catalogVars >>

\* One call of rule_subsumes on two rules of prog, in reduced form.
RuleSubsumes ==
    /\ canon = NoCanon
    /\ \E i, j \in DOMAIN prog :
          canon' = [op |-> "rule_subsumes", r1 |-> Reduced(prog[i]), r2 |-> Reduced(prog[j]),
                    out |-> rule_subsumes(Reduced(prog[i]), Reduced(prog[j]))]
    /\ UNCHANGED << prog, schedVars, biasVars, tmoVars, catalogVars >>

\* One call of theory_subsumes on prog split in two.
TheorySubsumes ==
    /\ canon = NoCanon
    /\ \E n \in 0..Len(prog) :
          canon' = [op |-> "theory_subsumes", split |-> n,
                    out |-> theory_subsumes(SubSeq(prog, 1, n), SubSeq(prog, n + 1, Len(prog)))]
    /\ UNCHANGED << prog, schedVars, biasVars, tmoVars, catalogVars >>

InitCanon ==
    /\ prog \in Programs
    /\ canon = NoCanon
    /\ IdleSched /\ IdleBias /\ IdleTmo /\ IdleCatalog

NextCanon == ReduceProg \/ OrderProg \/ RuleSubsumes \/ TheorySubsumes

SpecCanon == InitCanon /\ [][NextCanon]_vars

(***************************************************************************)
(* Properties of the canonicaliser.                                        *)
(***************************************************************************)
\* C5, as claimed: rule_subsumes(R1, R2) is true exactly when (R1 has a head,
\* or R2 has none) and R1's body-signature set is a subset of R2's.
C5_SubsumesAsClaimed ==
    canon.op = "rule_subsumes" =>
        (canon.out <=> ( /\ (canon.r1.head # NoneSig \/ canon.r2.head = NoneSig)
                         /\ canon.r1.body \subseteq canon.r2.body ))

\* C5, amended: rule_subsumes(R1, R2) is true exactly when (R1 has no head, or
\* R2 has a head) and R1's body-signature set is a subset of R2's; a headed R1
\* never subsumes a headless R2, and a headless R1 whose body is a subset of a
\* headed R2's body does subsume it.
C5_Subsumes ==
    canon.op = "rule_subsumes" =>
        /\ canon.out <=> ( /\ (canon.r1.head = NoneSig \/ canon.r2.head # NoneSig)
                           /\ canon.r1.body \subseteq canon.r2.body )
        /\ (canon.r1.head # NoneSig /\ canon.r2.head = NoneSig) => ~canon.out
        /\ ( /\ canon.r1.head = NoneSig /\ canon.r2.head # NoneSig
             /\ canon.r1.body \subseteq canon.r2.body ) => canon.out

\* C5 witness: a headless rule subsumes a headed rule with a larger body.
C5_Witness ==
    /\ canon.op = "rule_subsumes"
    /\ canon.r1.head = NoneSig /\ canon.r2.head # NoneSig
    /\ canon.r1.body \subseteq canon.r2.body /\ canon.r1.body # canon.r2.body
    /\ canon.out

\* The signature of a rule under which two rules are duplicates: the head's
\* (predicate, arguments) or "no head", and the set of the body's pairs.
Signature(rule) == Reduced(rule)

\* C6, as claimed: reduce_prog of any program of rules, headed or headless,
\* raises no error and returns exactly one rule of the program per distinct
\* signature, modes and the order of body literals ignored.
C6_OnePerSignature ==
    canon.op = "reduce_prog" =>
        /\ canon.out.kind = "ok"
        /\ \A n \in DOMAIN canon.out.value : \E m \in DOMAIN prog : canon.out.value[n] = prog[m]
        /\ \A m \in DOMAIN prog :
              Cardinality({ n \in DOMAIN canon.out.value :
                              Signature(canon.out.value[n]) = Signature(prog[m]) }) = 1

\* The same for programs whose rules all have a head.
C6_OnePerSignatureHeaded ==
    (canon.op = "reduce_prog" /\ \A m \in DOMAIN prog : prog[m].head # None) =>
        /\ canon.out.kind = "ok"
        /\ \A n \in DOMAIN canon.out.value : \E m \in DOMAIN prog : canon.out.value[n] = prog[m]
        /\ \A m \in DOMAIN prog :
              Cardinality({ n \in DOMAIN canon.out.value :
                              Signature(canon.out.value[n]) = Signature(prog[m]) }) = 1

\* How often a rule occurs in a program.
Count(program, rule) == Cardinality({ n \in DOMAIN program : program[n] = rule })

\* C7: order_prog returns a permutation of the program in which every
\* non-recursive rule comes before every recursive rule and, within each of the
\* two classes, body length does not decrease.
C7_CanonicalOrder ==
    canon.op = "order_prog" =>
        /\ Len(canon.out) = Len(prog)
        /\ \A n \in DOMAIN prog : Count(canon.out, prog[n]) = Count(prog, prog[n])
        /\ \A i, j \in DOMAIN canon.out :
              i < j =>
                /\ rule_is_recursive(canon.out[i]) => rule_is_recursive(canon.out[j])
                /\ (rule_is_recursive(canon.out[i]) = rule_is_recursive(canon.out[j]))
                      => Len(canon.out[i].body) <= Len(canon.out[j].body)

\* C7 witness: a recursive one-literal rule given first is placed after a
\* non-recursive two-literal rule.
C7_Witness ==
    /\ canon.op = "order_prog"
    /\ Len(prog) = 2
    /\ rule_is_recursive(prog[1]) /\ Len(prog[1].body) = 1
    /\ ~rule_is_recursive(prog[2]) /\ Len(prog[2].body) = 2
    /\ canon.out = << prog[2], prog[1] >>


(***************************************************************************)
(* The space enumerator: bias_order, lines 621-664. An entry is the tuple  *)
(* (size_literals, size_vars, size_rules, hspace).                         *)
(***************************************************************************)
\* The None of the simple sweep's fourth component, kept apart from every count.
NoneSpace == -1

\* pow(size_vars, arity)
RECURSIVE pow(_, _)
pow(base, exponent) == IF exponent = 0 THEN 1 ELSE base * pow(base, exponent - 1)

\* math.comb(n, k): the number of ways to choose k of n, 0 when k > n.
RECURSIVE comb(_, _)
comb(n, k) ==
    IF k > n THEN 0
    ELSE IF k = 0 THEN 1
    ELSE (comb(n, k - 1) * (n - k + 1)) \div k

\* line 648
hspace(st, size_vars, size_literals) ==
    comb((Cardinality(st.body_preds) + 1) * pow(size_vars, st.max_arity), size_literals)

\* A mutant of KeepEntry: configurations of estimated size zero are kept.
KeepEntry_KeepsZero(size_rules, size_literals, space) ==
    ~(size_rules > 1 /\ size_literals < 5)

\* lines 651-654: the two `continue` tests, negated.
KeepEntry(size_rules, size_literals, space) ==
    /\ space # 0
    /\ ~(size_rules > 1 /\ size_literals < 5)

\* lines 640-655: what the loop over size_vars appends, from size_vars on;
\* the break of line 646 ends it.
RECURSIVE VarsLoop(_, _, _, _)
VarsLoop(st, size_rules, size_literals, size_vars) ==
    IF size_vars > st.max_vars THEN << >>
    ELSE LET max_possible_vars == (size_literals * st.max_arity) - 1 IN
         IF size_vars > max_possible_vars THEN << >>
         ELSE LET space == hspace(st, size_vars, size_literals) IN
              (IF KeepEntry(size_rules, size_literals, space)
               THEN << << size_literals, size_vars, size_rules, space >> >>
               ELSE << >>)
                \o VarsLoop(st, size_rules, size_literals, size_vars + 1)

\* lines 635-655: what the loop over size_literals appends, from size_literals on.
RECURSIVE LiteralsLoop(_, _, _, _)
LiteralsLoop(st, size_rules, size_literals, max_size) ==
    IF size_literals > max_size THEN << >>
    ELSE VarsLoop(st, size_rules, size_literals, IF st.no_bias THEN 1 ELSE st.max_vars)
           \o LiteralsLoop(st, size_rules, size_literals + 1, max_size)

\* lines 633-655: what the loop over size_rules appends, from size_rules on.
RECURSIVE RulesLoop(_, _)
RulesLoop(st, size_rules) ==
    IF size_rules > st.max_rules THEN << >>
    ELSE LiteralsLoop(st, size_rules, 1, (1 + st.max_body) * size_rules)
           \o RulesLoop(st, size_rules + 1)

\* A mutant of BiasKey: the list is sorted by literal count alone.
BiasKey_LiteralsOnly(tup) == << 0, tup[1] >>

\* The key of line 658: (tup[3], tup[0])
BiasKey(tup) == << tup[4], tup[1] >>

\* ret.sort(key=...), line 658. The sort is stable: an entry comes after the
\* entries of smaller key and after the earlier entries of equal key.
BiasRank(ret, i) ==
    Cardinality({ j \in DOMAIN ret :
                    \/ KeyLess(BiasKey(ret[j]), BiasKey(ret[i]))
                    \/ (BiasKey(ret[j]) = BiasKey(ret[i]) /\ j < i) }) + 1

BiasSort(ret) ==
    [n \in DOMAIN ret |-> ret[CHOOSE i \in DOMAIN ret : BiasRank(ret, i) = n]]

\* bias_order(settings, max_size), lines 621-664
bias_order(st, max_size) ==
    IF ~(st.no_bias \/ st.order_space)
    THEN [n \in 1..(max_size - 1) |-> << n, st.max_vars, st.max_rules, NoneSpace >>]
    ELSE LET ret == RulesLoop(st, IF st.no_bias THEN 1 ELSE st.max_rules) IN
         IF st.order_space THEN BiasSort(ret) ELSE ret

\* One call of bias_order; the expanded mode also stores settings.search_order.
BiasOrder ==
    /\ bias_settings.pc = "start"
    /\ search_order' = bias_order(bias_settings, bias_settings.max_size)
    /\ bias_settings' = [bias_settings EXCEPT !.pc = "returned"]
    /\ UNCHANGED << schedVars, canonVars, tmoVars, catalogVars >>

InitBias ==
    /\ bias_settings \in
         [pc : {"start"}, no_bias : BOOLEAN, order_space : BOOLEAN,
          max_vars : 1..MaxVarsBound, max_rules : 1..MaxRulesBound,
          max_body : 1..MaxBodyBound, max_arity : {0, 1, 2},
          body_preds : { 1..n : n \in 0..MaxBodyPreds }, max_size : 1..MaxSizeArg]
    /\ search_order = << >>
    /\ IdleSched /\ IdleCanon /\ IdleTmo /\ IdleCatalog

NextBias == BiasOrder

SpecBias == InitBias /\ [][NextBias]_vars

(***************************************************************************)
(* Properties of the space enumerator.                                     *)
(***************************************************************************)
\* C8: with order_space on, for every catalog and both values of no_bias, the
\* returned sequence is sorted ascending by (estimated_space, literal_count),
\* so it is non-decreasing in estimated_space, and no entry has
\* estimated_space 0.
C8_OrderedBySpace ==
    (bias_settings.pc = "returned" /\ bias_settings.order_space) =>
        /\ \A i, j \in DOMAIN search_order :
              i < j =>
                /\ search_order[i][4] <= search_order[j][4]
                /\ search_order[i][4] = search_order[j][4]
                      => search_order[i][1] <= search_order[j][1]
        /\ \A i \in DOMAIN search_order : search_order[i][4] # 0

\* C8 witness: the sort has moved a configuration of more literals in front of
\* one of fewer literals and larger estimated space, and the sweep met a
\* configuration of estimated space 0.
C8_Witness ==
    /\ bias_settings.pc = "returned" /\ bias_settings.order_space
    /\ \E i, j \in DOMAIN search_order :
          /\ i < j
          /\ search_order[i][1] > search_order[j][1]
          /\ search_order[i][4] < search_order[j][4]
    /\ \E size_literals \in 1..((1 + bias_settings.max_body) * bias_settings.max_rules) :
          /\ bias_settings.max_vars <= (size_literals * bias_settings.max_arity) - 1
          /\ hspace(bias_settings, bias_settings.max_vars, size_literals) = 0


(***************************************************************************)
(* Bounded execution: timeout (lines 70-97) and _windows_timeout (lines    *)
(* 99-127). Time is a clock of ticks started when the call starts; the     *)
(* wrapped call needs `work` ticks, or never ends (hangs).                 *)
(*   pc       : "start", "in_func" (line 85), "except" (lines 89-93),      *)
(*              "finally" (line 95), "joining" (line 114),                 *)
(*              "join_forever" (line 118), "returned", "raised"            *)
(*   result   : the variable `result`                                      *)
(*   worker   : the thread of line 112: "none", "running", "finished"      *)
(*   timed_out: the deadline passed with the call unfinished (the alarm    *)
(*              went off inside the call, or is_alive() was true)          *)
(*   out      : what the wrapper returned or raised                        *)
(***************************************************************************)
FuncValues == {"x", "y"}
FuncErrors == {"AttributeError_SolveEventHandler", "AttributeError", "ValueError"}
NoOut == [kind |-> "none", value |-> "None"]

\* What func(*args, **kwargs) does once its work is done.
FuncOutcome(t) == IF t.behaviour \in FuncValues THEN "value" ELSE "exception"

\* lines 78-85 and 112-114: the branch on SIGALRM; with it, the handler is set,
\* the alarm armed and func called; without it the worker is started and joined.
TimeoutCall ==
    /\ tmo.pc = "start"
    /\ tmo' = IF tmo.has_sigalrm
              THEN [tmo EXCEPT !.pc = "in_func", !.alarm = TRUE]
              ELSE [tmo EXCEPT !.pc = "joining", !.worker = "running"]
    /\ UNCHANGED << schedVars, canonVars, biasVars, catalogVars >>

\* The wrapped call is running and neither done nor interrupted.
FuncRunning(t) ==
    \/ t.pc = "in_func"
    \/ t.worker = "running"

\* One tick of wall-clock time while the call works. The call ends when its
\* work is done; the alarm goes off, and the join of line 114 gives up, at
\* timeout_duration: time passes none of the three without it happening. A call
\* that never ends is followed up to the deadline.
Tick ==
    /\ FuncRunning(tmo)
    /\ IF tmo.hangs THEN tmo.clock < tmo.timeout_duration ELSE tmo.clock < tmo.work
    /\ (tmo.alarm \/ tmo.pc = "joining") => tmo.clock < tmo.timeout_duration
    /\ tmo' = [tmo EXCEPT !.clock = @ + 1]
    /\ UNCHANGED << schedVars, canonVars, biasVars, catalogVars >>

\* line 85 returns: result = func(...). The alarm is still armed.
FuncReturns ==
    /\ tmo.pc = "in_func"
    /\ ~tmo.hangs /\ tmo.clock >= tmo.work
    /\ FuncOutcome(tmo) = "value"
    /\ tmo' = [tmo EXCEPT !.pc = "finally", !.result = tmo.behaviour]
    /\ UNCHANGED << schedVars, canonVars, biasVars, catalogVars >>

\* line 85 raises: an AttributeError enters the except clause of line 89,
\* any other exception goes to the finally block. The alarm is still armed.
FuncRaises ==
    /\ tmo.pc = "in_func"
    /\ ~tmo.hangs /\ tmo.clock >= tmo.work
    /\ FuncOutcome(tmo) = "exception"
    /\ tmo' = [tmo EXCEPT !.pc = IF tmo.behaviour \in {"AttributeError_SolveEventHandler",
                                                       "AttributeError"}
                                 THEN "except" ELSE "finally"]
    /\ UNCHANGED << schedVars, canonVars, biasVars, catalogVars >>

\* lines 90-93: an AttributeError that names _SolveEventHandler is logged as
\* a timeout, with `return result` to follow; any other is raised again.
ExceptAttributeError ==
    /\ tmo.pc = "except"
    /\ tmo' = [tmo EXCEPT !.pc = "finally",
                          !.logged = (tmo.behaviour = "AttributeError_SolveEventHandler")]
    /\ UNCHANGED << schedVars, canonVars, biasVars, catalogVars >>

\* lines 94-97: signal.alarm(0) disarms the alarm, then the pending return
\* or exception takes place.
AlarmDisarmed ==
    /\ tmo.pc = "finally"
    /\ tmo' = IF tmo.behaviour \in {"AttributeError", "ValueError"}
              THEN [tmo EXCEPT !.pc = "raised", !.alarm = FALSE,
                               !.out = [kind |-> "raise", value |-> tmo.behaviour]]
              ELSE [tmo EXCEPT !.pc = "returned", !.alarm = FALSE,
                               !.out = [kind |-> "return", value |-> tmo.result]]
    /\ UNCHANGED << schedVars, canonVars, biasVars, catalogVars >>

\* lines 75-76 and 86-88, 94-95: SIGALRM arrives inside func, the handler
\* raises TimeoutError there, the except clause logs and returns result.
AlarmFires ==
    /\ tmo.pc = "in_func"
    /\ tmo.alarm /\ tmo.clock >= tmo.timeout_duration
    /\ tmo' = [tmo EXCEPT !.pc = "returned", !.alarm = FALSE, !.logged = TRUE,
                          !.timed_out = TRUE,
                          !.out = [kind |-> "return", value |-> tmo.result]]
    /\ UNCHANGED << schedVars, canonVars, biasVars, catalogVars >>

\* lines 75-76 with SIGALRM arriving after func has ended and before
\* signal.alarm(0) of line 95: the handler raises TimeoutError in the except
\* clause of line 89 or in the finally block, where no except clause of the
\* try statement catches it, and it goes on to the caller.
AlarmFiresAfterFunc ==
    /\ tmo.pc \in {"except", "finally"}
    /\ tmo.alarm /\ tmo.clock >= tmo.timeout_duration
    /\ tmo' = [tmo EXCEPT !.pc = "raised", !.alarm = FALSE,
                          !.out = [kind |-> "raise", value |-> "TimeoutError"]]
    /\ UNCHANGED << schedVars, canonVars, biasVars, catalogVars >>

\* target(), lines 105-110, on the worker: result = func(...), or result = e.
WorkerFinishes ==
    /\ tmo.worker = "running"
    /\ ~tmo.hangs /\ tmo.clock >= tmo.work
    /\ tmo' = [tmo EXCEPT !.worker = "finished", !.result = tmo.behaviour]
    /\ UNCHANGED << schedVars, canonVars, biasVars, catalogVars >>

\* line 114 returns (the worker ended or timeout_duration passed), then lines
\* 116-127: a live worker sends the wrapper into thread.join() of line 118;
\* otherwise an exception kept in result is raised, anything else returned.
JoinReturns ==
    /\ tmo.pc = "joining"
    /\ tmo.worker = "finished" \/ tmo.clock >= tmo.timeout_duration
    /\ tmo' = IF tmo.worker = "running"
              THEN [tmo EXCEPT !.pc = "join_forever", !.timed_out = TRUE]
              ELSE IF tmo.result \in FuncErrors
              THEN [tmo EXCEPT !.pc = "raised", !.out = [kind |-> "raise", value |-> tmo.result]]
              ELSE [tmo EXCEPT !.pc = "returned", !.out = [kind |-> "return", value |-> tmo.result]]
    /\ UNCHANGED << schedVars, canonVars, biasVars, catalogVars >>

\* line 118 returns, which it does only once the worker has ended; then lines
\* 119-121: the timeout is logged and result returned.
JoinForeverReturns ==
    /\ tmo.pc = "join_forever"
    /\ tmo.worker = "finished"
    /\ tmo' = [tmo EXCEPT !.pc = "returned", !.logged = TRUE,
                          !.out = [kind |-> "return", value |-> tmo.result]]
    /\ UNCHANGED << schedVars, canonVars, biasVars, catalogVars >>

InitTimeout ==
    /\ tmo \in [pc : {"start"}, has_sigalrm : BOOLEAN, timeout_duration : 1..MaxDuration,
                work : 0..MaxWork, behaviour : FuncValues \cup FuncErrors, hangs : BOOLEAN,
                clock : {0}, alarm : {FALSE}, worker : {"none"}, result : {"None"},
                logged : {FALSE}, timed_out : {FALSE}, out : {NoOut}]
    /\ tmo.hangs => (tmo.work = 0 /\ tmo.behaviour = "x")
    /\ IdleSched /\ IdleCanon /\ IdleBias /\ IdleCatalog

NextTimeout ==
    \/ TimeoutCall
    \/ Tick
    \/ FuncReturns
    \/ FuncRaises
    \/ ExceptAttributeError
    \/ AlarmDisarmed
    \/ AlarmFires
    \/ AlarmFiresAfterFunc
    \/ WorkerFinishes
    \/ JoinReturns
    \/ JoinForeverReturns

SpecTimeout == InitTimeout /\ [][NextTimeout]_vars

(***************************************************************************)
(* Properties of bounded execution.                                        *)
(***************************************************************************)
WrapperDone == tmo.pc \in {"returned", "raised"}

\* The wrapped call ends before the deadline / is still running after it.
CompletesBeforeDeadline(t) == ~t.hangs /\ t.work < t.timeout_duration
ExceedsDeadline(t) == t.hangs \/ t.work > t.timeout_duration

\* What C9 promises of a finished wrapper.
BoundedOutcome(t) ==
    /\ (CompletesBeforeDeadline(t) /\ FuncOutcome(t) = "value") =>
          t.out = [kind |-> "return", value |-> t.behaviour] /\ ~t.logged
    /\ ExceedsDeadline(t) =>
          t.out = [kind |-> "return", value |-> "None"] /\ t.logged

\* No timeout exception has left the wrapper.
NoTimeoutRaised(t) == t.out # [kind |-> "raise", value |-> "TimeoutError"]

\* C9, as claimed, on both paths: a call that completes before the deadline
\* with a value has that value returned unchanged; a call that exceeds the
\* deadline makes the wrapper return None with a logged timeout notice, and
\* no timeout exception is raised past the wrapper to its caller.
C9_BoundedExecution == WrapperDone => (BoundedOutcome(tmo) /\ NoTimeoutRaised(tmo))

\* The two cases of C9 on the signal path alone.
C9_BoundedExecutionSignalPath == (WrapperDone /\ tmo.has_sigalrm) => BoundedOutcome(tmo)

\* With no clock tick between the end of func and line 95 (see Tick), a
\* TimeoutError leaves the wrapper only on the signal path, for a call that
\* ends as the alarm goes off.
C9_TimeoutRaisedOnlyAtDeadline ==
    ~NoTimeoutRaised(tmo) =>
        (tmo.has_sigalrm /\ ~tmo.hangs /\ tmo.work = tmo.timeout_duration)

\* C10, as claimed: on the worker path, once the deadline has passed with the
\* worker unfinished, the wrapper does not wait for the worker: it is never
\* blocked on a worker that is still running.
C10_DetachesAtDeadline ==
    ~( /\ ~tmo.has_sigalrm
       /\ ExceedsDeadline(tmo)
       /\ tmo.timed_out
       /\ tmo.pc = "join_forever"
       /\ tmo.worker = "running" )

\* What the worker path does instead: the wrapper never hands control back
\* while the worker is still running.
FallbackReturnsOnlyAfterWorker ==
    (~tmo.has_sigalrm /\ WrapperDone) => tmo.worker = "finished"

(***************************************************************************)
(* Catalog construction: Settings.__init__, lines 462-542.                 *)
(*                                                                         *)
(* catalog is a record:                                                    *)
(*   pc        : "idle", "start", "done" or "raised"                       *)
(*   pi_enabled: an enable_pi fact is present (lines 466-468)              *)
(*   direction : the direction/2 facts, in the solver's iteration order    *)
(*   head_pred : the head_pred/2 facts, in the solver's iteration order    *)
(*   body_pred : the body_pred/2 facts                                     *)
(*   max_vars  : self.max_vars after lines 499-500                         *)
(*   out       : the attributes the constructor set, or the error raised   *)
(***************************************************************************)
MaxDirectionFacts == 2  \* most direction/2 facts in a bias file
MaxCatalogVars == 2     \* largest max_vars of a bias file

DirSymbols == {"in", "out", "other"}
CatalogPreds == {"p", "q", "r"}
CatalogArity == [p |-> 2, q |-> 1, r |-> 2]
Positions == 1..2

\* The direction facts of the bias files: for p and q, a tuple of at most
\* as many symbols as the predicate has arguments; none for r.
DirectionFacts ==
    { [pred |-> pr, dirs |-> ds] :
        pr \in {"p", "q"},
        ds \in UNION { [1..n -> DirSymbols] : n \in 0..2 } } \ 
    { [pred |-> "q", dirs |-> ds] : ds \in [1..2 -> DirSymbols] }
DirectionFiles == UNION { [1..n -> DirectionFacts] : n \in 0..MaxDirectionFacts }

HeadPredFiles == { << >>, << [pred |-> "p", arity |-> 2] >> }
BodyPredFiles == SUBSET { [pred |-> "q", arity |-> 1], [pred |-> "r", arity |-> 2] }

NoCatalog == [kind |-> "none"]
Unbound == "unbound"

\* line 472: defaultdict(lambda: defaultdict(lambda: '?')), position i of the
\* code being position i + 1 here.
DefaultDirections == [pr \in CatalogPreds |-> [i \in Positions |-> "?"]]

\* lines 477-480: arg_dir is assigned for 'in' and 'out' and otherwise keeps
\* the value the previous iteration left in it.
ArgDir(y, prev) == IF y = "in" THEN "+" ELSE IF y = "out" THEN "-" ELSE prev

\* lines 475-481: the inner loop over one fact's symbols. Reading arg_dir
\* before its first assignment raises UnboundLocalError.
RECURSIVE EnumerateLoop(_, _, _, _)
EnumerateLoop(pred, ys, i, st) ==
    IF i > Len(ys) \/ st.error THEN st
    ELSE LET arg_dir == ArgDir(ys[i], st.arg_dir) IN
         IF arg_dir = Unbound
         THEN [st EXCEPT !.error = TRUE]
         ELSE EnumerateLoop(pred, ys, i + 1,
                  [directions |-> [st.directions EXCEPT ![pred][i] = arg_dir],
                   arg_dir |-> arg_dir, error |-> FALSE])

\* lines 473-481: the loop over the direction facts.
RECURSIVE DirectionLoop(_, _, _)
DirectionLoop(facts, n, st) ==
    IF n > Len(facts) \/ st.error THEN st
    ELSE DirectionLoop(facts, n + 1, EnumerateLoop(facts[n].pred, facts[n].dirs, 1, st))

ReadDirections(facts) ==
    DirectionLoop(facts, 1, [directions |-> DefaultDirections, arg_dir |-> Unbound, error |-> FALSE])

\* tuple(directions[pred][i] for i in range(arity)), lines 493, 526 and 537.
ModeVector(directions, pred, arity) == [i \in 1..arity |-> directions[pred][i]]

Max(a, b) == IF a >= b THEN a ELSE b

\* lines 484-486 and 512: the largest arity of a head or body predicate.
MaxArityOf(c) ==
    LET arities == { c.head_pred[n].arity : n \in DOMAIN c.head_pred }
                   \cup { bp.arity : bp \in c.body_pred } \cup {0}
    IN  CHOOSE a \in arities : \A b \in arities : Max(a, b) = a

\* line 514: arg_lookup, as far as the bounds reach.
Alphabet == << "A", "B", "C", "D" >>
arg_lookup == [i \in 0..(Len(Alphabet) - 1) |-> Alphabet[i + 1]]

\* itertools.permutations(range(0, max_vars), i)
permutations(max_vars, i) ==
    { k \in [1..i -> 0..(max_vars - 1)] : \A a, b \in 1..i : k[a] = k[b] => a = b }

\* lines 515-520.
cached_atom_args(max_arity, max_vars) ==
    [k \in UNION { permutations(max_vars, i) : i \in 1..max_arity } |->
        [j \in DOMAIN k |-> arg_lookup[k[j]]]]

\* lines 489-494: the head literal the last head_pred fact leaves, or None
\* when there is no such fact (the attribute is then never set).
HeadLiteralOf(c, directions) ==
    IF c.head_pred = << >> THEN None
    ELSE LET x == c.head_pred[Len(c.head_pred)] IN
         Literal(x.pred, [i \in 1..x.arity |-> arg_lookup[i - 1]],
                 ModeVector(directions, x.pred, x.arity))

\* lines 523-526 and 535-537: body_modes, of the body predicates and of the
\* head predicate.
BodyModesOf(c, directions, head_literal) ==
    LET preds == { << bp.pred, bp.arity >> : bp \in c.body_pred }
                 \cup { << head_literal.predicate, Len(head_literal.arguments) >> }
    IN  [pr \in { pa[1] : pa \in preds } |->
            ModeVector(directions, pr, (CHOOSE pa \in preds : pa[1] = pr)[2])]

\* lines 528-533 and 538-542: one literal per predicate and argument tuple of
\* the predicate's arity.
CachedLiteralsOf(body_modes, atom_args) ==
    [pk \in { qk \in (DOMAIN body_modes) \X (DOMAIN atom_args) :
                Len(atom_args[qk[2]]) = Len(body_modes[qk[1]]) } |->
        Literal(pk[1], atom_args[pk[2]], body_modes[pk[1]])]

NoModes == [pr \in {} |-> << >>]
NoLiterals == [pk \in {} |-> None]

\* The attributes Settings.__init__ leaves, or the exception it raises.
SettingsOutcome(c) ==
    LET read == ReadDirections(c.direction)
        max_arity == MaxArityOf(c)
        atom_args == cached_atom_args(max_arity, c.max_vars)
    IN  IF c.pi_enabled
        THEN [kind |-> "settings", error |-> "none", head_literal |-> None,
              body_modes |-> NoModes, cached_literals |-> NoLiterals,
              cached_atom_args |-> atom_args, max_arity |-> max_arity]
        ELSE IF read.error
        THEN [kind |-> "raised", error |-> "UnboundLocalError", head_literal |-> None,
              body_modes |-> NoModes, cached_literals |-> NoLiterals,
              cached_atom_args |-> atom_args, max_arity |-> max_arity]
        ELSE IF c.head_pred = << >>
        THEN [kind |-> "raised", error |-> "AttributeError", head_literal |-> None,
              body_modes |-> NoModes, cached_literals |-> NoLiterals,
              cached_atom_args |-> atom_args, max_arity |-> max_arity]
        ELSE LET head_literal == HeadLiteralOf(c, read.directions)
                 body_modes == BodyModesOf(c, read.directions, head_literal)
             IN  [kind |-> "settings", error |-> "none", head_literal |-> head_literal,
                  body_modes |-> body_modes,
                  cached_literals |-> CachedLiteralsOf(body_modes, atom_args),
                  cached_atom_args |-> atom_args, max_arity |-> max_arity]

\* Settings.__init__ from the reading of the flags to the cached literals.
SettingsInit ==
    /\ catalog.pc = "start"
    /\ LET out == SettingsOutcome(catalog) IN
       catalog' = [catalog EXCEPT !.pc = IF out.kind = "raised" THEN "raised" ELSE "done",
                                  !.out = out]
    /\ UNCHANGED << schedVars, canonVars, biasVars, tmoVars >>

InitCatalog ==
    /\ \E pi \in BOOLEAN, ds \in DirectionFiles, hp \in HeadPredFiles,
          bp \in BodyPredFiles, mv \in 1..MaxCatalogVars :
         catalog = [pc |-> "start", pi_enabled |-> pi, direction |-> ds,
                    head_pred |-> hp, body_pred |-> bp, max_vars |-> mv,
                    out |-> NoCatalog]
    /\ IdleSched /\ IdleCanon /\ IdleBias /\ IdleTmo

NextCatalog == SettingsInit

SpecCatalog == InitCatalog /\ [][NextCatalog]_vars

(***************************************************************************)
(* Properties of catalog construction.                                     *)
(***************************************************************************)
CatalogFinished == catalog.pc \in {"done", "raised"}

\* The head and body predicates of the bias facts, with their arities.
DeclaredPreds(c) ==
    { << c.head_pred[n].pred, c.head_pred[n].arity >> : n \in DOMAIN c.head_pred }
    \cup { << bp.pred, bp.arity >> : bp \in c.body_pred }

\* No direction fact of the predicate reaches argument position i.
LacksDirection(c, pred, i) ==
    ~ \E n \in DOMAIN c.direction :
        c.direction[n].pred = pred /\ Len(c.direction[n].dirs) >= i

IncompletePreds(c) ==
    { pa \in DeclaredPreds(c) : \E i \in 1..pa[2] : LacksDirection(c, pa[1], i) }

\* Every argument position of the catalog has an In or an Out direction.
AllDirected(out) ==
    /\ \A i \in DOMAIN out.head_literal.modes : out.head_literal.modes[i] \in {"+", "-"}
    /\ \A pr \in DOMAIN out.body_modes :
          \A i \in DOMAIN out.body_modes[pr] : out.body_modes[pr][i] \in {"+", "-"}
    /\ \A pk \in DOMAIN out.cached_literals :
          \A i \in DOMAIN out.cached_literals[pk].modes :
              out.cached_literals[pk].modes[i] \in {"+", "-"}

\* C11: with predicate invention disabled, a head or body predicate that
\* lacks a direction fact for one of its argument positions makes the
\* construction fail with a missing-mode error, and the construction never
\* completes with a catalog (head literal, body_modes, cached literals) in
\* which an argument position has neither the In nor the Out direction.
C11_MissingModeFails ==
    (CatalogFinished /\ ~catalog.pi_enabled) =>
        /\ IncompletePreds(catalog) # {} =>
              (catalog.pc = "raised" /\ catalog.out.error = "MissingModeError")
        /\ catalog.pc = "done" => AllDirected(catalog.out)

\* What the construction does instead: it completes whenever a head predicate
\* is declared and the direction facts are readable, and every position no
\* direction fact reaches carries the '?' of line 472.
C11_MissingDirectionsDefault ==
    (catalog.pc = "done" /\ ~catalog.pi_enabled) =>
        \A pa \in DeclaredPreds(catalog) : \A i \in 1..pa[2] :
            LacksDirection(catalog, pa[1], i) => catalog.out.body_modes[pa[1]][i] = "?"

\* A completed catalog with a '?' position exists.
C11_CompletesUndirected ==
    /\ catalog.pc = "done" /\ ~catalog.pi_enabled
    /\ IncompletePreds(catalog) # {}
    /\ ~AllDirected(catalog.out)

(***************************************************************************)
(* Selection priority of order_rule.                                       *)
(***************************************************************************)
\* One iteration of order_rule's while loop, on a rule with a head, that
\* selected a literal.
SelectionStep ==
    /\ pc = "loop" /\ ~settings_datalog /\ head # None
    /\ Len(ordered_body') = Len(ordered_body) + 1

\* The literal a selection step selected.
Selected == ordered_body'[Len(ordered_body')]

\* An eligible literal whose predicate differs from the head's.
EligibleNonRecursive(literal) ==
    IsGroundable(literal, grounded_variables) /\ literal.predicate # head.predicate

HasGenerator == \E literal \in body_literals : IsGenerator(literal)
HasEligibleNonRecursive == \E literal \in body_literals : EligibleNonRecursive(literal)

\* C12, as claimed: at every selection step on a rule with a head, under
\* every iteration order, a generator is selected when the remaining body
\* holds one; otherwise a non-recursive eligible literal is selected when it
\* holds one; a recursive eligible literal is selected only when it holds
\* neither.
C12_SelectionPriorityAsClaimed ==
    [][ SelectionStep =>
          /\ HasGenerator => IsGenerator(Selected)
          /\ (~HasGenerator /\ HasEligibleNonRecursive) => EligibleNonRecursive(Selected)
          /\ (~IsGenerator(Selected) /\ ~EligibleNonRecursive(Selected)) =>
                (~HasGenerator /\ ~HasEligibleNonRecursive) ]_vars

\* C12, amended: at every selection step on a rule with a head, under every
\* iteration order, the selected literal is a generator or an eligible
\* literal; when the remaining body holds a generator or a non-recursive
\* eligible literal, the selected literal is one of these two kinds, whichever
\* the iteration meets first; a recursive eligible literal that is no
\* generator is selected only when the remaining body holds neither kind.
C12_SelectionPriority ==
    [][ SelectionStep =>
          /\ Selected \in body_literals
          /\ IsGenerator(Selected) \/ IsGroundable(Selected, grounded_variables)
          /\ (HasGenerator \/ HasEligibleNonRecursive) =>
                (IsGenerator(Selected) \/ EligibleNonRecursive(Selected)) ]_vars

\* The remaining body before the last selection, and what was grounded then.
LastSelected == ordered_body[Len(ordered_body)]
GroundedBeforeLast == HeadInputs \cup EarlierOutputs(ordered_body, Len(ordered_body))

\* A step has selected a non-recursive eligible literal that is no generator
\* while a generator remained, and the call returned an ordering.
C12_Witness ==
    /\ Returned /\ ~settings_datalog /\ head # None
    /\ Len(ordered_body) = 2
    /\ ~IsGenerator(ordered_body[1])
    /\ IsGroundable(ordered_body[1], HeadInputs)
    /\ ordered_body[1].predicate # head.predicate
    /\ IsGenerator(ordered_body[2])

(***************************************************************************)
(* Recall-directed ordering: termination and the fallback selection.       *)
(***************************************************************************)
\* The rules of the recall-directed specification: bodies of at most
\* MaxDatalogLits literals over three variables (max_vars = 3), so that a
\* body can hold a literal with a variable the head does not have.
MaxDatalogLits == 3     \* most literals in a rule body of SpecDatalog
DatalogVars == {"A", "B", "C"}

DatalogAtoms ==
    { a \in BodyPreds \X UNION { [1..n -> DatalogVars] : n \in {1, 2} } :
        /\ Len(a[2]) = Arity[a[1]]
        /\ \A i, j \in DOMAIN a[2] : a[2][i] = a[2][j] => i = j }

DatalogBodies == { b \in SUBSET DatalogAtoms : Cardinality(b) <= MaxDatalogLits }

\* The specification of the recall-directed policy alone: one call of
\* order_rule with settings.datalog set, on each rule over the atoms and each
\* recall table. The policy reads no mode, so one direction catalog stands
\* for all. A running call that can take a step takes it.
InitDatalog ==
    /\ \E d \in {DirA}, hasHead \in BOOLEAN, atoms \in DatalogBodies :
         /\ head = (IF hasHead THEN Literal(HeadPred, << "A", "B" >>, d[HeadPred]) ELSE None)
         /\ body = { Literal(a[1], a[2], d[a[1]]) : a \in atoms }
    /\ settings_datalog = TRUE
    /\ settings_recall \in RecallTables
    /\ pc = "start"
    /\ body_literals = {}
    /\ ordered_body = << >>
    /\ grounded_variables = {}
    /\ seen_vars = {}
    /\ result = NoResult
    /\ IdleCanon /\ IdleBias /\ IdleTmo /\ IdleCatalog

NextDatalog ==
    \/ OrderRuleCall
    \/ DatalogIteration
    \/ DatalogReturn

SpecDatalog == InitDatalog /\ [][NextDatalog]_vars /\ WF_vars(NextDatalog)

\* One iteration of order_rule_datalog's while loop.
DatalogStep ==
    /\ pc = "datalog_loop"
    /\ ordered_body' # ordered_body

FullySeen(literal) == argset(literal) \subseteq seen_vars

\* The selection of one iteration: one literal of the remaining body, moved
\* to the end of ordered_body; a literal with an unseen argument only when no
\* remaining literal is fully seen, and then one of the least recall score.
DatalogSelection ==
    /\ Len(ordered_body') = Len(ordered_body) + 1
    /\ Selected \in body_literals
    /\ body_literals' = body_literals \ {Selected}
    /\ ~FullySeen(Selected) =>
          /\ \A literal \in body_literals : ~FullySeen(literal)
          /\ \A literal \in body_literals :
                tmp_score(settings_recall, seen_vars, Selected)
                    <= tmp_score(settings_recall, seen_vars, literal)

\* The call raises nothing and, once over, has returned (head, ordered_body)
\* after one selection per body literal.
DatalogOutcome ==
    settings_datalog =>
        /\ pc # "error"
        /\ pc \in {"datalog_loop", "done"} =>
              Len(ordered_body) + Cardinality(body_literals) = Cardinality(body)
        /\ pc = "done" =>
              /\ result.kind = "ordered"
              /\ result.head = head
              /\ Len(result.body) = Cardinality(body)
              /\ { result.body[i] : i \in DOMAIN result.body } = body

\* C13: order_rule_datalog has no failure case and always terminates: for
\* every rule, with or without a head, and every recall table, the empty one
\* included, the loop makes exactly one selection per body literal and then
\* returns (head, ordered_body) without raising; a literal whose arguments
\* are not all seen is selected only when no remaining literal is fully seen,
\* and it then has the least recall score of the remaining literals, the
\* score being 1000000 where the table has no hint.
C13_DatalogTerminates ==
    /\ []DatalogOutcome
    /\ [][DatalogStep => DatalogSelection]_vars
    /\ (settings_datalog /\ pc = "start") ~> (settings_datalog /\ pc = "done")

\* A rule with a head and three body literals was ordered. The first
\* selection took a fully seen literal while a literal with an unseen
\* argument and a smaller recall score remained; the second found no fully
\* seen literal and took, of two literals with unseen arguments, the one of
\* the smaller hinted score.
C13_Witness ==
    /\ Returned /\ settings_datalog /\ head # None
    /\ Len(ordered_body) = 3
    /\ argset(ordered_body[1]) \subseteq argset(head)
    /\ ~(argset(ordered_body[2]) \subseteq argset(head))
    /\ ~(argset(ordered_body[3]) \subseteq argset(head))
    /\ tmp_score(settings_recall, argset(head), ordered_body[2])
          < tmp_score(settings_recall, argset(head), ordered_body[1])
    /\ tmp_score(settings_recall, argset(head), ordered_body[2])
          < tmp_score(settings_recall, argset(head), ordered_body[3])
    /\ tmp_score(settings_recall, argset(head), ordered_body[3]) < NoHint

\* A headless rule of two literals was ordered by the recall table alone:
\* the first selection took the literal of the smaller hinted score while
\* both had unseen arguments.
C13_HeadlessByScore ==
    /\ Returned /\ settings_datalog /\ head = None
    /\ Len(ordered_body) = 2
    /\ tmp_score(settings_recall, {}, ordered_body[1]) < tmp_score(settings_recall, {}, ordered_body[2])
    /\ tmp_score(settings_recall, {}, ordered_body[2]) < NoHint

(***************************************************************************)
(* Independence of order_rule's outcome from the set iteration order.      *)
(***************************************************************************)
\* The literals of `remaining` a selection step can take with `grounded`.
Ready(grounded, remaining) ==
    { literal \in remaining : IsGenerator(literal) \/ IsGroundable(literal, grounded) }

\* What is left of `remaining` once no literal is ready, all ready literals
\* being taken together round after round: a function of the rule alone.
RECURSIVE Stuck(_, _)
Stuck(grounded, remaining) ==
    LET ready == Ready(grounded, remaining) IN
    IF ready = {} THEN remaining
    ELSE Stuck(grounded \cup UNION { outputs(literal) : literal \in ready }, remaining \ ready)

\* The rule can be ordered; no iteration order enters this definition.
Orderable == Stuck(HeadInputs, body) = {}

AllOutputs == UNION { outputs(literal) : literal \in body }

\* C14: the outcome of order_rule does not depend on the iteration order of
\* the remaining-literal set. Whatever order each iteration takes, the call
\* on a rule returns an ordering exactly when the rule is orderable and
\* raises the grounding error exactly when it is not, and every returned
\* ordering leaves the same set of grounded variables: the head's inputs with
\* the outputs of all body literals. No rule is accepted under one iteration
\* order and rejected under another.
C14_OrderIndependentOutcome ==
    ~settings_datalog =>
        /\ pc = "error" => ~Orderable
        /\ Returned =>
              /\ Orderable
              /\ grounded_variables = HeadInputs \cup AllOutputs
        /\ pc = "loop" =>
              (Orderable <=> Stuck(grounded_variables, body_literals) = {})

\* A call returned an ordering of two literals either of which the first
\* iteration could have selected, the second being selectable only because
\* of no other literal's outputs.
C14_Witness ==
    /\ Returned /\ ~settings_datalog /\ head # None
    /\ Len(ordered_body) = 2
    /\ Ready(HeadInputs, body) = body
    /\ \A literal \in body : IsGenerator(literal) \/ EligibleNonRecursive(literal)
    /\ ordered_body[1].predicate # ordered_body[2].predicate

====
